---- MODULE Spec2Model ----
(***************************************************************************)
(* svg-term-cli: the run of main (src/cli.ts) from the parsed command line *)
(* to the written SVG, with the theme resolution it performs: terminal     *)
(* detection, preference-container lookup, flag validation, getTheme.      *)
(*                                                                         *)
(* JavaScript strings are sequences of one-character strings, so that      *)
(* charAt, parseInt and path.join are computed and not looked up.          *)
(***************************************************************************)
EXTENDS Naturals, Sequences, FiniteSets

\* Number of preset names a presets mapping of a preference container may hold.
MaxPresets == 1

(***************************************************************************)
(* JavaScript values                                                       *)
(***************************************************************************)
Undefined == [t |-> "undefined", v |-> <<>>]
Null == [t |-> "null", v |-> <<>>]
Str(s) == [t |-> "string", v |-> s]
Obj(f) == [t |-> "object", v |-> f]

\* Boolean(x) for the values above: only a non-empty string is truthy.
Truthy(x) == x.t = "string" /\ x.v # <<>>

\* a || b
Or(a, b) == IF Truthy(a) THEN a ELSE b

\* The property key a value is converted to by obj[x] and `x in obj`.
PropertyKey(x) ==
  IF x.t = "string" THEN x.v
  ELSE IF x.t = "undefined" THEN <<"u","n","d","e","f","i","n","e","d">>
  ELSE <<"n","u","l","l">>

\* Properties every plain object inherits from Object.prototype.
toString == <<"t","o","S","t","r","i","n","g">>
constructor == <<"c","o","n","s","t","r","u","c","t","o","r">>
ObjectPrototype == {toString, constructor}

\* `key in obj` for a plain object with the given own keys: the prototype
\* chain is searched too.
HasProperty(key, ownKeys) == PropertyKey(key) \in (ownKeys \cup ObjectPrototype)

(***************************************************************************)
(* The string literals of the program                                      *)
(***************************************************************************)
iterm2 == <<"i","t","e","r","m","2">>
terminal == <<"t","e","r","m","i","n","a","l">>
konsole == <<"k","o","n","s","o","l","e">>
remmina == <<"r","e","m","m","i","n","a">>
terminator == <<"t","e","r","m","i","n","a","t","o","r">>
termite == <<"t","e","r","m","i","t","e">>
tilda == <<"t","i","l","d","a">>
xcfe == <<"x","c","f","e">>
xresources == <<"x","r","e","s","o","u","r","c","e","s">>
xterm == <<"x","t","e","r","m">>

\* enum DetectableTerminals: its keys (each value equals its key).
DetectableTerminals == {iterm2, terminal}

\* enum TermSchemes of term-schemes: the members getParser names.
TermSchemes ==
  {iterm2, konsole, remmina, terminal, terminator, termite, tilda, xcfe,
   xresources, xterm}

(***************************************************************************)
(* parseInt(val, 10) and toNumber                                          *)
(***************************************************************************)
Digits == <<"0","1","2","3","4","5","6","7","8","9">>
IsDigit(c) == \E i \in 1..Len(Digits) : Digits[i] = c
DigitValue(c) == (CHOOSE i \in 1..Len(Digits) : Digits[i] = c) - 1

RECURSIVE LeadingDigits(_)
LeadingDigits(s) ==
  IF s = <<>> \/ ~IsDigit(Head(s)) THEN <<>>
  ELSE <<Head(s)>> \o LeadingDigits(Tail(s))

RECURSIVE DecimalValue(_)
DecimalValue(ds) ==
  IF ds = <<>> THEN 0
  ELSE DecimalValue(SubSeq(ds, 1, Len(ds) - 1)) * 10 + DigitValue(ds[Len(ds)])

\* parseInt of a JavaScript value: the leading decimal digits, NaN if none.
\* undefined is converted to the string "undefined", which has none.
parseInt(x) ==
  LET ds == LeadingDigits(PropertyKey(x))
  IN IF ds = <<>> THEN [nan |-> TRUE, n |-> 0]
     ELSE [nan |-> FALSE, n |-> DecimalValue(ds)]

toNumber(x) ==
  IF ~Truthy(x) THEN Null
  ELSE IF parseInt(x).nan THEN Null
  ELSE [t |-> "number", v |-> parseInt(x).n]

(***************************************************************************)
(* Paths                                                                   *)
(***************************************************************************)
\* The segments of a path string between its "/" separators.
RECURSIVE Split(_, _)
Split(s, cur) ==
  IF s = <<>> THEN <<cur>>
  ELSE IF Head(s) = "/" THEN <<cur>> \o Split(Tail(s), <<>>)
  ELSE Split(Tail(s), Append(cur, Head(s)))

\* Path normalisation: "" and "." segments vanish, ".." removes its parent.
RECURSIVE Normalize(_, _)
Normalize(segs, acc) ==
  IF segs = <<>> THEN acc
  ELSE IF Head(segs) = <<>> \/ Head(segs) = <<".">>
    THEN Normalize(Tail(segs), acc)
  ELSE IF Head(segs) = <<".", ".">>
    THEN Normalize(Tail(segs),
                   IF acc = <<>> THEN acc ELSE SubSeq(acc, 1, Len(acc) - 1))
  ELSE Normalize(Tail(segs), Append(acc, Head(segs)))

\* path.join(a, b) for an absolute a: the segments of the normalised a/b.
PathJoin(a, b) == Normalize(Split(a \o <<"/">> \o b, <<>>), <<>>)

\* The file a path given to fs.readFileSync names: an absolute path as it
\* is, any other path relative to the working directory.
PathResolve(dir, p) ==
  IF p # <<>> /\ Head(p) = "/" THEN Normalize(Split(p, <<>>), <<>>)
  ELSE PathJoin(dir, p)

\* s.charAt(0)
CharAt0(s) == IF s = <<>> THEN <<>> ELSE <<Head(s)>>

\* ['~', '/', '.'].indexOf(p.charAt(0)) > -1
IsFileProfile(p) == CharAt0(p) \in {<<"~">>, <<"/">>, <<".">>}

(***************************************************************************)
(* Inputs of a run                                                         *)
(***************************************************************************)
xrdb == <<"x","r","d","b">>
Pro == <<"P","r","o">>
Foo == <<"F","o","o">>
Sea == <<"S","e","a">>
iTermApp == <<"i","T","e","r","m",".","a","p","p">>
AppleTerminal ==
  <<"A","p","p","l","e","_","T","e","r","m","i","n","a","l">>

\* process.cwd()
cwd == <<"/","w">>

Platforms == {"darwin", "linux"}
TermPrograms == {Undefined, Str(iTermApp), Str(AppleTerminal), Str(xterm)}

TermValues == {iterm2, terminal, xterm, xrdb, toString}
ProfileValues ==
  {Pro, Foo, <<".","/","t">>, <<"/","t">>, <<"~","/","t">>}
WidthValues == {<<"8","0">>, <<"x">>}
HeightValues == {<<"x">>}
OutValues == {<<"o">>}
CastValues == {<<"1">>}
FlagNames == {"term", "profile", "width", "height", "out", "cast"}

FlagValues ==
  [term : TermValues, profile : ProfileValues, width : WidthValues,
   height : HeightValues, out : OutValues, cast : CastValues]

\* cli.flags: an object holding the options given on the command line.
AllFlags ==
  { [n \in dom |-> Str(vals[n])] : dom \in SUBSET FlagNames, vals \in FlagValues }

\* flags[name]: undefined for an option that was not given.
Get(obj, name) == IF name \in DOMAIN obj THEN obj[name] ELSE Undefined

\* The recording text a source may deliver: none, or a recording.
Recordings == {<<>>, <<"r">>}

\* response.text() of the cast download, and getStdin().
fetchCast == Recordings
getStdin == Recordings

\* Files that may exist where a --profile value can point.
ProfileFiles ==
  { <<<<"t">>>>, <<<<"w">>, <<"t">>>>, <<<<"w">>, <<"~">>, <<"t">>>> }

(***************************************************************************)
(* Preference containers                                                   *)
(***************************************************************************)
AllNames == <<Pro, Foo, Sea>>
PresetNames ==
  { AllNames[i] : i \in 1..(IF MaxPresets < Len(AllNames) THEN MaxPresets
                            ELSE Len(AllNames)) }

\* The raw theme data stored under a preset name.
Blob(name) == [preset |-> name]

\* name -> raw theme data, for each set of names within the bound.
PresetMappings == { [n \in names |-> Blob(n)] : names \in SUBSET PresetNames }

\* The parsed property list of com.apple.terminal.plist.
TerminalConfigs ==
  { [k \in dom |-> IF k = "Default Window Settings" THEN Str(vals.default)
                   ELSE Obj(vals.presets)] :
      dom \in SUBSET {"Default Window Settings", "Window Settings"},
      vals \in [default : PresetNames, presets : PresetMappings] }

\* The parsed property list of com.googlecode.iterm2.plist.
ITermConfigs ==
  { [k \in dom |-> Obj(presets)] :
      dom \in SUBSET {"Custom Color Presets"}, presets \in PresetMappings }

NotFound == [status |-> "ENOENT", config |-> <<>>]
Malformed == [status |-> "malformed", config |-> <<>>]
Unread == [status |-> "unread", config |-> <<>>]
Parsed(cfg) == [status |-> "ok", config |-> cfg]

\* What the preference file of a detectable terminal may hold.
Containers(term) ==
  {NotFound, Malformed} \cup
  { Parsed(c) : c \in IF term = terminal THEN TerminalConfigs ELSE ITermConfigs }

(***************************************************************************)
(* State                                                                   *)
(***************************************************************************)
VARIABLES
  platform,      \* os.platform()
  TERM_PROGRAM,  \* process.env.TERM_PROGRAM
  flags,         \* cli.flags
  files,         \* the profile files that exist
  prefs,         \* the preference file of the terminal, once it was read
  pc,            \* position of the run
  input,         \* main: input
  guess,         \* main: guess
  theme,         \* main: theme
  svg,           \* main: svg
  err,           \* the error main was rejected with
  stdout,        \* what was written to process.stdout
  outFile,       \* what was written to the --out file
  opened,        \* paths handed to fs.readFileSync by parseTheme
  console,       \* how withCli ended the process, once it did
  trace          \* the steps of main completed so far

vars ==
  <<platform, TERM_PROGRAM, flags, files, prefs, pc, input, guess, theme, svg,
    err, stdout, outFile, opened, console, trace>>

env == <<platform, TERM_PROGRAM, flags, files>>

(***************************************************************************)
(* Results of calls that may throw                                         *)
(***************************************************************************)
Ok(val) == [threw |-> "none", val |-> val, cites |-> <<>>]
Throw(kind, cites) == [threw |-> kind, val |-> Undefined, cites |-> cites]

NoError == [kind |-> "none", help |-> FALSE, cites |-> <<>>]

\* cliError(cli)(message): an Error carrying the help text.
cliError(kind, cites) == [kind |-> kind, help |-> TRUE, cites |-> cites]

\* An exception raised by a callee, passed on as it is.
Exception(r) == [kind |-> r.threw, help |-> FALSE, cites |-> r.cites]

(***************************************************************************)
(* Theme resolution                                                        *)
(***************************************************************************)
\* guessTerminal without its platform test.
guessTerminalAnyPlatform ==
  IF TERM_PROGRAM = Str(iTermApp) THEN Str(iterm2)
  ELSE IF TERM_PROGRAM = Str(AppleTerminal) THEN Str(terminal)
  ELSE Null

guessTerminal ==
  IF platform # "darwin" THEN Undefined
  ELSE IF TERM_PROGRAM = Str(iTermApp) THEN Str(iterm2)
  ELSE IF TERM_PROGRAM = Str(AppleTerminal) THEN Str(terminal)
  ELSE Null

\* getConfig reads a preference file exactly for these terms.
ReadsConfig(term) == term = Str(terminal) \/ term = Str(iterm2)

getConfig(term, file) ==
  IF ReadsConfig(term)
    THEN IF file.status = "ok" THEN Ok(Obj(file.config))
         ELSE IF file.status = "malformed" THEN Throw("plist", <<>>)
         ELSE Throw("ENOENT", <<>>)
    ELSE Ok(Null)

getPresets(term, file) ==
  LET config == getConfig(term, file)
  IN IF config.threw # "none" THEN config
     ELSE IF term = Str(terminal)
       THEN Ok(Get(config.val.v, "Window Settings"))
     ELSE IF term = Str(iterm2)
       THEN Ok(Get(config.val.v, "Custom Color Presets"))
     ELSE Ok(Null)

guessProfile(term, file) ==
  IF platform # "darwin" THEN Ok(Null)
  ELSE LET config == getConfig(term, file)
       IN IF config.threw # "none" THEN config
          ELSE IF config.val.t # "object" THEN Ok(Null)
          ELSE IF term = Str(terminal)
            THEN Ok(Get(config.val.v, "Default Window Settings"))
          ELSE Ok(Null)

getParser(term) ==
  IF term = Str(iterm2) THEN Ok(iterm2)
  ELSE IF term = Str(konsole) THEN Ok(konsole)
  ELSE IF term = Str(remmina) THEN Ok(remmina)
  ELSE IF term = Str(terminal) THEN Ok(terminal)
  ELSE IF term = Str(terminator) THEN Ok(terminator)
  ELSE IF term = Str(termite) THEN Ok(termite)
  ELSE IF term = Str(tilda) THEN Ok(tilda)
  ELSE IF term = Str(xcfe) THEN Ok(<<"x","f","c","e">>)
  ELSE IF term = Str(xresources) THEN Ok(xresources)
  ELSE IF term = Str(xterm) THEN Ok(xterm)
  ELSE Throw("unknown term parser", <<PropertyKey(term)>>)

\* The theme a parser makes of a text, or its failure on a malformed one.
Parse(parser, text, wellFormed) ==
  IF wellFormed THEN Ok([t |-> "theme", v |-> <<parser, text>>])
  ELSE Throw("ParseError", <<>>)

\* The file parseTheme reads for a profile.
ReadPath(profile) == PathResolve(cwd, PropertyKey(profile))

parseTheme(term, profile, wellFormed) ==
  LET parser == getParser(term)
  IN IF parser.threw # "none" THEN parser
     ELSE IF ReadPath(profile) \notin files
       THEN Throw("ENOENT", <<PropertyKey(profile)>>)
     ELSE Parse(parser.val, [file |-> ReadPath(profile)], wellFormed)

extractTheme(term, name, file) ==
  IF ~HasProperty(term, DetectableTerminals) THEN Ok(Null)
  ELSE IF platform # "darwin" THEN Ok(Null)
  ELSE LET presets == getPresets(term, file)
       IN IF presets.threw # "none" THEN presets
          ELSE IF presets.val.t # "object" THEN Throw("TypeError", <<>>)
          ELSE LET blob == Get(presets.val.v, PropertyKey(name))
                   parser == getParser(term)
               IN IF parser.threw # "none" THEN parser
                  ELSE IF blob = Undefined THEN Ok(Null)
                  ELSE IF term = Str(iterm2) \/ term = Str(terminal)
                    THEN Parse(parser.val, [plist |-> blob], TRUE)
                  ELSE Ok(Null)

getTheme(g, file, wellFormed) ==
  IF g.term = Null \/ g.profile = Null THEN Ok(Null)
  ELSE IF IsFileProfile(Or(g.profile, Str(<<>>)).v)
    THEN parseTheme(g.term, g.profile, wellFormed)
  ELSE extractTheme(g.term, g.profile, file)

(***************************************************************************)
(* main                                                                    *)
(***************************************************************************)
Init ==
  /\ platform \in Platforms
  /\ TERM_PROGRAM \in TermPrograms
  /\ flags \in AllFlags
  /\ files \in SUBSET ProfileFiles
  /\ prefs = Unread
  /\ pc = "getInput"
  /\ input = Undefined
  /\ guess = [term |-> Undefined, profile |-> Undefined]
  /\ theme = Undefined
  /\ svg = Undefined
  /\ err = NoError
  /\ stdout = <<>>
  /\ outFile = <<>>
  /\ opened = {}
  /\ console = <<>>
  /\ trace = <<>>

\* A step of main that completes and goes on to the next one.
Goto(next) ==
  /\ pc' = next
  /\ trace' = Append(trace, pc)
  /\ err' = err

\* throw e: main is rejected with e.
Fail(e) ==
  /\ pc' = "failed"
  /\ trace' = trace
  /\ err' = e

\* await getInput(cli); the text is that of the cast when --cast is given,
\* that of standard input when not.
GetInput ==
  /\ pc = "getInput"
  /\ \E text \in (IF Truthy(Get(flags, "cast")) THEN fetchCast ELSE getStdin) :
       /\ input' = Str(text)
       /\ IF ~Truthy(Str(text)) THEN Fail(cliError("input", <<>>))
          ELSE Goto("ensureSize")
  /\ UNCHANGED <<env, prefs, guess, theme, svg, stdout, outFile, opened, console>>

\* The names among `names` that are given and are not a number.
MalformedSizes(names) ==
  SelectSeq(names,
            LAMBDA name : name \in DOMAIN flags /\ parseInt(Get(flags, name)).nan)

EnsureSize ==
  /\ pc = "ensureSize"
  /\ IF Len(MalformedSizes(<<"height", "width">>)) > 0
       THEN Fail(cliError("size", MalformedSizes(<<"height", "width">>)))
       ELSE Goto("guess")
  /\ UNCHANGED <<env, prefs, input, guess, theme, svg, stdout, outFile, opened,
                 console>>

\* const term = guessTerminal() || cli.flags.term
GuessedTerm == Or(guessTerminal, Get(flags, "term"))

\* Whether guessProfile(term) reads the preference file of term.
GuessReads(term) == Truthy(term) /\ platform = "darwin" /\ ReadsConfig(term)

\* The contents a read of the preference file of term may deliver: what an
\* earlier read delivered, when there was one.
PrefsRead(term) == IF prefs # Unread THEN {prefs} ELSE Containers(term.v)

Guess ==
  /\ pc = "guess"
  /\ LET term == GuessedTerm
     IN \E file \in (IF GuessReads(term) THEN PrefsRead(term) ELSE {prefs}) :
          LET guessed == IF Truthy(term) THEN guessProfile(term, file)
                         ELSE Ok(Undefined)
          IN /\ prefs' = file
             /\ IF guessed.threw # "none"
                  THEN Fail(Exception(guessed)) /\ guess' = guess
                  ELSE /\ Goto("checkPair")
                       /\ guess' = [term |-> term,
                                    profile |-> Or(guessed.val,
                                                   Get(flags, "profile"))]
  /\ UNCHANGED <<env, input, theme, svg, stdout, outFile, opened, console>>

\* ['term', 'profile'].filter(n => !Boolean(guess[n]))
Unsatisfied == SelectSeq(<<"term", "profile">>, LAMBDA n : ~Truthy(guess[n]))

CheckPair ==
  /\ pc = "checkPair"
  /\ IF /\ ("term" \in DOMAIN flags \/ "profile" \in DOMAIN flags)
        /\ Len(Unsatisfied) > 0
       THEN Fail(cliError("pair", Unsatisfied))
       ELSE Goto("checkTerm")
  /\ UNCHANGED <<env, prefs, input, guess, theme, svg, stdout, outFile, opened,
                 console>>

\* The --term value the validation rejects, if it rejects one.
UnknownTerm ==
  "term" \in DOMAIN flags /\ ~HasProperty(Get(flags, "term"), TermSchemes)

CheckTerm ==
  /\ pc = "checkTerm"
  /\ IF UnknownTerm
       THEN Fail(cliError("term", <<PropertyKey(Get(flags, "term"))>>))
       ELSE Goto("checkProfile")
  /\ UNCHANGED <<env, prefs, input, guess, theme, svg, stdout, outFile, opened,
                 console>>

\* The file whose existence main checks for a profile.
CheckedPath(profile) == PathJoin(cwd, PropertyKey(profile))

\* isFileProfile && 'profile' in cli.flags, and the file is missing.
MissingProfile ==
  /\ IsFileProfile(Or(guess.profile, Str(<<>>)).v)
  /\ "profile" \in DOMAIN flags
  /\ CheckedPath(Get(flags, "profile")) \notin files

CheckProfile ==
  /\ pc = "checkProfile"
  /\ IF MissingProfile
       THEN Fail(cliError("profile", <<PropertyKey(Get(flags, "profile"))>>))
       ELSE Goto("getTheme")
  /\ UNCHANGED <<env, prefs, input, guess, theme, svg, stdout, outFile, opened,
                 console>>

\* Whether getTheme(guess) gets as far as fs.readFileSync.
Opens(g) ==
  /\ g.term # Null /\ g.profile # Null
  /\ IsFileProfile(Or(g.profile, Str(<<>>)).v)
  /\ getParser(g.term).threw = "none"

\* Whether getTheme(guess) reads the preference file of guess.term.
ThemeReads(g) ==
  /\ g.term # Null /\ g.profile # Null
  /\ ~IsFileProfile(Or(g.profile, Str(<<>>)).v)
  /\ HasProperty(g.term, DetectableTerminals)
  /\ platform = "darwin"
  /\ ReadsConfig(g.term)

GetTheme ==
  /\ pc = "getTheme"
  /\ \E wellFormed \in BOOLEAN,
        file \in (IF ThemeReads(guess) THEN PrefsRead(guess.term) ELSE {prefs}) :
       LET got == getTheme(guess, file, wellFormed)
       IN /\ prefs' = file
          /\ IF got.threw # "none"
               THEN Fail(Exception(got)) /\ theme' = theme
               ELSE Goto("render") /\ theme' = got.val
  /\ opened' = IF Opens(guess) THEN opened \cup {ReadPath(guess.profile)}
               ELSE opened
  /\ UNCHANGED <<env, input, guess, svg, stdout, outFile, console>>

\* render(input, {height, theme, width, window})
Render ==
  /\ pc = "render"
  /\ svg' = [input |-> input,
             height |-> toNumber(Get(flags, "height")),
             theme |-> theme,
             width |-> toNumber(Get(flags, "width")),
             window |-> Truthy(Get(flags, "frame"))]
  /\ Goto("write")
  /\ UNCHANGED <<env, prefs, input, guess, theme, stdout, outFile, opened,
                 console>>

\* A destination that ignores --out.
DestinationStdout == "stdout"

\* Where main writes the SVG.
Destination == IF "out" \in DOMAIN flags THEN "out" ELSE "stdout"

Write ==
  /\ pc = "write"
  /\ stdout' = IF Destination = "stdout"
                THEN Append(stdout, [kind |-> "svg", body |-> <<svg>>])
                ELSE stdout
  /\ outFile' = IF Destination = "out"
                 THEN Append(outFile, [kind |-> "svg", body |-> <<svg>>])
                 ELSE outFile
  /\ Goto("done")
  /\ UNCHANGED <<env, prefs, input, guess, theme, svg, opened, console>>

(***************************************************************************)
(* withCli                                                                 *)
(***************************************************************************)
\* The catch handler: an error carrying help is reported on standard output
\* (console.log) with the help text and its message, and the process exits
\* with status 1; any other error is thrown again and left uncaught.
Catch ==
  /\ pc = "failed"
  /\ stdout' = IF err.help
                THEN stdout \o <<[kind |-> "help", body |-> <<>>],
                                 [kind |-> "message", body |-> <<err>>]>>
                ELSE stdout
  /\ console' = IF err.help THEN <<"exit 1">> ELSE <<"uncaught", err.kind>>
  /\ pc' = "exited"
  /\ UNCHANGED <<env, prefs, input, guess, theme, svg, err, outFile, opened,
                 trace>>

Next ==
  \/ GetInput
  \/ EnsureSize
  \/ Guess
  \/ CheckPair
  \/ CheckTerm
  \/ CheckProfile
  \/ GetTheme
  \/ Render
  \/ Write
  \/ Catch

Spec == Init /\ [][Next]_vars

(***************************************************************************)
(* Properties                                                              *)
(***************************************************************************)
HasTerm == "term" \in DOMAIN flags
HasProfile == "profile" \in DOMAIN flags

\* The step of main named `step` has completed.
Completed(step) == \E i \in 1..Len(trace) : trace[i] = step

\* main was rejected.
Rejected == pc \in {"failed", "exited"}

\* main holds the result of getTheme.
HasTheme == pc \in {"render", "write", "done"}

\* Something written is SVG.
SvgIn(out) == \E i \in 1..Len(out) : out[i].kind = "svg"

\* The presets mapping the preference file read holds for a terminal, as a
\* set of names; no name when the file or the collection is missing.
PresetKeys(term) ==
  LET key == IF term = Str(terminal) THEN "Window Settings"
             ELSE "Custom Color Presets"
  IN IF prefs.status = "ok" /\ key \in DOMAIN prefs.config
       THEN DOMAIN prefs.config[key].v
       ELSE {}

\* C1: a run with recording input in which exactly one of --term and
\* --profile is given ends in a usage error (an error carrying the help
\* text) and never proceeds to getTheme or render.
C1_LonePairFlagIsUsageError ==
  (HasTerm # HasProfile /\ Truthy(input)) =>
    /\ ~Completed("checkProfile")
    /\ pc # "done"
    /\ Rejected => err.help

\* C2: when --term and --profile are both given and pass validation, the
\* guess handed to getTheme is (flags.term, flags.profile), whatever the
\* platform and the detected terminal.
C2_ExplicitFlagsDecide ==
  (HasTerm /\ HasProfile /\ Completed("checkProfile")) =>
    /\ guess.term = Get(flags, "term")
    /\ guess.profile = Get(flags, "profile")

\* C3: a run in which --profile is path-like and names no existing file ends
\* in a usage error; it never reaches getTheme, render or a read of a file.
C3_MissingProfileIsUsageError ==
  ( /\ HasProfile
    /\ IsFileProfile(Get(flags, "profile").v)
    /\ ReadPath(Get(flags, "profile")) \notin files
    /\ Truthy(input) ) =>
    /\ ~Completed("checkProfile")
    /\ opened = {}
    /\ pc # "done"
    /\ Rejected => err.help

\* C4: with neither --term nor --profile, theme selection never aborts the
\* run: no error of getConfig, getPresets, guessProfile or extractTheme
\* escapes, and render gets a parsed theme or null.
C4_DetectionNeverAborts ==
  (~HasTerm /\ ~HasProfile) =>
    /\ err.kind \in {"none", "input", "size"}
    /\ HasTheme => theme.t \in {"theme", "null"}

\* C5: on darwin with no explicit flags, for each detected terminal whose
\* preference container is present and holds presets among which its default
\* one is, render gets the theme parsed from a preset of that terminal, and
\* for Terminal.app the one of the default preset; never null.
C5_DetectedDefaultPreset ==
  ( /\ platform = "darwin" /\ ~HasTerm /\ ~HasProfile
    /\ HasTheme
    /\ Truthy(guess.term)
    /\ PresetKeys(guess.term) # {}
    /\ guess.term = Str(terminal) =>
         /\ "Default Window Settings" \in DOMAIN prefs.config
         /\ prefs.config["Default Window Settings"].v \in PresetKeys(guess.term) ) =>
    /\ theme.t = "theme"
    /\ guess.term = Str(terminal) =>
         theme = Parse(terminal,
                       [plist |-> Blob(prefs.config["Default Window Settings"].v)],
                       TRUE).val

\* C6: off darwin, with neither --term nor --profile, guessTerminal yields
\* no terminal whatever TERM_PROGRAM is, no file is read for the theme,
\* theme resolution raises no error and render gets the theme null.
C6_NoThemeOffDarwin ==
  (platform # "darwin" /\ ~HasTerm /\ ~HasProfile) =>
    /\ Completed("guess") => ~Truthy(guess.term)
    /\ HasTheme => theme = Null
    /\ err.kind \in {"none", "input", "size"}
    /\ prefs = Unread /\ opened = {}

C6_Witness ==
  /\ platform # "darwin" /\ ~HasTerm /\ ~HasProfile
  /\ TERM_PROGRAM = Str(iTermApp)
  /\ files # {}
  /\ pc = "done"
  /\ theme = Null

\* C7: a run that ends in an error was rejected before render was called and
\* wrote no SVG, neither to standard output nor to the --out file; SVG is
\* written only once every validation step and getTheme have completed, and
\* then to one destination: the --out file if `out` is among the flags,
\* standard output if not.
C7_NoSvgOnError ==
  /\ err # NoError =>
       /\ Rejected
       /\ svg = Undefined
       /\ ~SvgIn(stdout) /\ ~SvgIn(outFile)
  /\ (SvgIn(stdout) \/ SvgIn(outFile)) =>
       /\ pc = "done" /\ err = NoError
       /\ trace = <<"getInput", "ensureSize", "guess", "checkPair",
                    "checkTerm", "checkProfile", "getTheme", "render", "write">>
       /\ Truthy(input)
       /\ MalformedSizes(<<"height", "width">>) = <<>>
       /\ ~UnknownTerm /\ ~MissingProfile
       /\ SvgIn(outFile) = ("out" \in DOMAIN flags)
       /\ SvgIn(stdout) = ("out" \notin DOMAIN flags)
       /\ Len(stdout) + Len(outFile) = 1
  /\ pc = "done" => (SvgIn(stdout) \/ SvgIn(outFile))

C7_Witness ==
  /\ pc = "exited"
  /\ err.kind = "TypeError"
  /\ "out" \notin DOMAIN flags
  /\ Completed("checkProfile")
  /\ ~SvgIn(stdout)

\* C8: the --term values the validation accepts are those getParser has a
\* parser for: a value it rejects has none, and no run that passed the
\* validation fails with `unknown term parser`.
C8_AcceptedTermsHaveParser ==
  /\ err.kind = "term" => getParser(Get(flags, "term")).threw # "none"
  /\ err.kind # "unknown term parser"

\* C9: a named preset (a profile that is not path-like, for a detectable
\* terminal on darwin) whose name is no key of the presets mapping of a
\* readable container, the absent mapping included, resolves to the theme
\* null and the run proceeds to render; it is never a fatal error.
C9_UnknownPresetIsNull ==
  ( /\ platform = "darwin"
    /\ Completed("checkProfile") /\ pc # "getTheme"
    /\ guess.term.v \in DetectableTerminals
    /\ Truthy(guess.profile) /\ ~IsFileProfile(guess.profile.v)
    /\ prefs.status = "ok"
    /\ guess.profile.v \notin PresetKeys(guess.term) ) =>
    /\ ~Rejected
    /\ theme = Null

\* C10: the file main checks for a path-like --profile is the file
\* parseTheme reads: a profile file that exists at the path as given is
\* never rejected as not found, and a run that passed the check never reads
\* a file that does not exist.
C10_CheckedFileIsReadFile ==
  /\ err.kind = "profile" => ReadPath(Get(flags, "profile")) \notin files
  /\ opened \subseteq files
====
